---- MODULE Spec2Model ----
(***************************************************************************)
(* Model of the Singapore Maritime Dataset ground-truth converters:        *)
(*   src/load_mat_into_csv_xml.py      (Frame, the csv/xml pipeline)        *)
(*   src/convert_mat_to_csv_LEGACY.py  (legacy Frame, flat csv rows)        *)
(*                                                                         *)
(* Strings are sequences of tokens (file names, paths, image names), so    *)
(* that split, strip, replace and join are computed as Python computes     *)
(* them.  Real numbers are fixed-point integers counted in tenths: 10.7 is *)
(* 107, and the integer 16 produced by int() is 160.                       *)
(***************************************************************************)
EXTENDS Integers, Sequences, FiniteSets, TLC

VARIABLES
    self,               \* harness: the Frame objects under test, <<>>, <<obj>> or <<obj, obj>>
    cls,                \* harness: which script's Frame class the object is
    call,               \* harness: the last method called, its mode, its result
    files,              \* the annotation files on disk: path -> document
    raised,             \* the exception that ended the last call / the run
    dirs,               \* pipeline input: the listing of each ground-truth directory
    frames_tuple,       \* pipeline input: <<train_frames, test_frames>>
    integer_bb,         \* pipeline input: the integer_bb argument of the entry point
    entry,              \* pipeline input: the entry point the driver calls
    pc,                 \* pipeline: position of the driver / entry point
    d,                  \* pipeline: index of the directory being processed
    object_gt_files_dict, \* pipeline: the dict of generate_gt_files_dict, in key order
    k,                  \* pipeline: index of the key being processed
    gt,                 \* pipeline: the loaded container, as <<>> or <<container>>
    i,                  \* pipeline: frame index within the loaded container
    frames,             \* pipeline: the frames dict, in key order
    object_list_train,  \* pipeline: the entry point's train rows
    object_list_test,   \* pipeline: the entry point's test rows
    object_list,        \* pipeline: the rows of get_all_gt_files_in_csv
    objects_list_train, \* pipeline: the driver's train rows
    objects_list_test,  \* pipeline: the driver's test rows
    objects_list,       \* pipeline: the driver's rows of get_all_gt_files_in_csv
    prev                \* pipeline: what the previous run of the script left, <<>> or <<r>>

harness_vars == <<self, cls, call>>
pipe_vars == <<dirs, frames_tuple, integer_bb, entry, pc, d, object_gt_files_dict,
               k, gt, i, frames, object_list_train, object_list_test, object_list,
               objects_list_train, objects_list_test, objects_list, prev>>
vars == <<self, cls, call, files, raised, dirs, frames_tuple, integer_bb, entry,
          pc, d, object_gt_files_dict, k, gt, i, frames, object_list_train,
          object_list_test, object_list, objects_list_train, objects_list_test,
          objects_list, prev>>

(***************************************************************************)
(* Bounds of the model.                                                    *)
(***************************************************************************)
MaxObjs == 2        \* objects per frame in the Frame harness
MaxCode == 11       \* class codes 0..MaxCode are tried (the vocabulary is 1..10)
MaxFiles == 2       \* container files over all ground-truth directories

(***************************************************************************)
(* Python primitives.                                                      *)
(***************************************************************************)

\* int(x) on a real: truncation toward zero (values are tenths).
int(x) == IF x >= 0 THEN (x \div 10) * 10 ELSE -(((-x) \div 10) * 10)

\* s[a:b] on a token sequence, 1-based and inclusive.
Slice(s, a, b) == [j \in 1..(IF b >= a THEN b - a + 1 ELSE 0) |-> s[a + j - 1]]

\* Index of the first / last occurrence of token t in s, 0 if none.
FirstIdx(s, t) ==
    IF \E j \in 1..Len(s) : s[j] = t
    THEN CHOOSE j \in 1..Len(s) : s[j] = t /\ \A h \in 1..(j - 1) : s[h] # t
    ELSE 0

LastIdx(s, t) ==
    IF \E j \in 1..Len(s) : s[j] = t
    THEN CHOOSE j \in 1..Len(s) : s[j] = t /\ \A h \in (j + 1)..Len(s) : s[h] # t
    ELSE 0

\* s.split(sep)[0]
SplitFirst(s, sep) ==
    IF FirstIdx(s, sep) = 0 THEN s ELSE Slice(s, 1, FirstIdx(s, sep) - 1)

\* s.split(sep)[-1]
SplitLast(s, sep) ==
    IF LastIdx(s, sep) = 0 THEN s ELSE Slice(s, LastIdx(s, sep) + 1, Len(s))

\* s.strip(): leading and trailing whitespace tokens removed.
RECURSIVE LStrip(_)
LStrip(s) == IF s # <<>> /\ Head(s) = " " THEN LStrip(Tail(s)) ELSE s

RECURSIVE RStrip(_)
RStrip(s) ==
    IF s # <<>> /\ s[Len(s)] = " " THEN RStrip(Slice(s, 1, Len(s) - 1)) ELSE s

strip(s) == RStrip(LStrip(s))

\* s.replace(pat, ''): every non-overlapping occurrence of pat removed, left to right.
RECURSIVE replace(_, _)
replace(s, pat) ==
    IF Len(s) < Len(pat) \/ pat = <<>> THEN s
    ELSE IF Slice(s, 1, Len(pat)) = pat
         THEN replace(Slice(s, Len(pat) + 1, Len(s)), pat)
         ELSE <<Head(s)>> \o replace(Tail(s), pat)

\* os.path.join(a, b) for a relative b.
join(a, b) ==
    IF a = <<>> THEN b
    ELSE IF a[Len(a)] = "/" THEN a \o b
    ELSE a \o <<"/">> \o b

(***************************************************************************)
(* class Frame (load_mat_into_csv_xml.py).  An object is a record of its   *)
(* attributes; xml is <<>> until convert_frame_to_VOC_xml has assigned it. *)
(* A method is an operator from the object to the outcome of the call:     *)
(* the object after the call, what was raised, and the returned value.     *)
(***************************************************************************)

classes_dict ==
    (1 :> "Ferry") @@ (2 :> "Buoy") @@ (3 :> "Vessel/ship") @@ (4 :> "Speed boat") @@
    (5 :> "Boat") @@ (6 :> "Kayak") @@ (7 :> "Sail boat") @@
    (8 :> "Swimming person") @@ (9 :> "Flying bird/plane") @@ (10 :> "Other")

\* Frame.__init__
Frame(frame, image_name, bb, objects, motion, distance, image_path, xml_path) ==
    [frame |-> frame, image_name |-> image_name, bb |-> bb, objects |-> objects,
     motion |-> motion, distance |-> distance,
     image_path |-> image_path, xml_path |-> xml_path,
     csv_list |-> <<>>, csv_list_initialized |-> FALSE,
     xml |-> <<>>, xml_initialized |-> FALSE]

\* Mutant: xmax computed from the height column.
csv_entry_wrong_column(o, n, integer_bb_arg) ==
    IF integer_bb_arg
    THEN [filename |-> o.image_name,
          width  |-> int(o.bb[n][3]),
          height |-> int(o.bb[n][4]),
          class  |-> o.objects[n][1],
          xmin   |-> int(o.bb[n][1]),
          ymin   |-> int(o.bb[n][2]),
          xmax   |-> int(o.bb[n][1] + o.bb[n][4]),
          ymax   |-> int(o.bb[n][2] + o.bb[n][4])]
    ELSE [filename |-> o.image_name,
          width  |-> o.bb[n][3],
          height |-> o.bb[n][4],
          class  |-> o.objects[n][1],
          xmin   |-> o.bb[n][1],
          ymin   |-> o.bb[n][2],
          xmax   |-> o.bb[n][1] + o.bb[n][4],
          ymax   |-> o.bb[n][2] + o.bb[n][4]]

\* The tuple appended at lines 116-136.
csv_entry(o, n, integer_bb_arg) ==
    IF integer_bb_arg
    THEN [filename |-> o.image_name,
          width  |-> int(o.bb[n][3]),
          height |-> int(o.bb[n][4]),
          class  |-> o.objects[n][1],
          xmin   |-> int(o.bb[n][1]),
          ymin   |-> int(o.bb[n][2]),
          xmax   |-> int(o.bb[n][1] + o.bb[n][3]),
          ymax   |-> int(o.bb[n][2] + o.bb[n][4])]
    ELSE [filename |-> o.image_name,
          width  |-> o.bb[n][3],
          height |-> o.bb[n][4],
          class  |-> o.objects[n][1],
          xmin   |-> o.bb[n][1],
          ymin   |-> o.bb[n][2],
          xmax   |-> o.bb[n][1] + o.bb[n][3],
          ymax   |-> o.bb[n][2] + o.bb[n][4]]

\* Mutant: the class-code test forgotten.
keeps_entry_all(code) == TRUE

\* The class-code test of lines 115 / 177 / LEGACY 90.
keeps_entry(code) == code # 0

\* The loop of lines 113-136, from index n on (1-based), rows so far in acc.
RECURSIVE csv_loop(_, _, _, _)
csv_loop(o, n, integer_bb_arg, acc) ==
    IF n > Len(o.objects) THEN [rows |-> acc, raised |-> "none"]
    ELSE IF Len(o.objects[n]) = 0 THEN [rows |-> acc, raised |-> "IndexError"]
    ELSE IF keeps_entry(o.objects[n][1])
         THEN IF n > Len(o.bb)
              THEN [rows |-> acc, raised |-> "IndexError"]
              ELSE csv_loop(o, n + 1, integer_bb_arg,
                            Append(acc, csv_entry(o, n, integer_bb_arg)))
         ELSE csv_loop(o, n + 1, integer_bb_arg, acc)

\* Mutant: the guard on the outer length, len(self.objects) > 0.
first_len_outer(objects) == [raised |-> "none", len |-> Len(objects)]

\* The guard of lines 112 / 174 / LEGACY 87: len(self.objects[0]) > 0.
\* "IndexError" when objects has no element 0.
first_len(objects) ==
    IF Len(objects) = 0 THEN [raised |-> "IndexError", len |-> 0]
    ELSE [raised |-> "none", len |-> Len(objects[1])]

\* Mutant: the list is not emptied first (line 108 left out).
convert_frame_to_csv_no_reset(o, integer_bb_arg) ==
    LET g == first_len(o.objects)
    IN  IF g.raised # "none" THEN [obj |-> o, raised |-> g.raised]
        ELSE IF g.len > 0
        THEN LET r == csv_loop(o, 1, integer_bb_arg, o.csv_list)
             IN  IF r.raised # "none"
                 THEN [obj |-> [o EXCEPT !.csv_list = r.rows], raised |-> r.raised]
                 ELSE [obj |-> [o EXCEPT !.csv_list = r.rows,
                                         !.csv_list_initialized = TRUE],
                       raised |-> "none"]
        ELSE [obj |-> [o EXCEPT !.csv_list_initialized = TRUE],
              raised |-> "none"]

\* Frame.convert_frame_to_csv
convert_frame_to_csv(o, integer_bb_arg) ==
    LET cleared == [o EXCEPT !.csv_list = <<>>]
        g == first_len(o.objects)
    IN  IF g.raised # "none" THEN [obj |-> cleared, raised |-> g.raised]
        ELSE IF g.len > 0
        THEN LET r == csv_loop(o, 1, integer_bb_arg, <<>>)
             IN  IF r.raised # "none"
                 THEN [obj |-> [o EXCEPT !.csv_list = r.rows], raised |-> r.raised]
                 ELSE [obj |-> [o EXCEPT !.csv_list = r.rows,
                                         !.csv_list_initialized = TRUE],
                       raised |-> "none"]
        ELSE [obj |-> [cleared EXCEPT !.csv_list_initialized = TRUE],
              raised |-> "none"]

\* Frame.get_frame_as_csv
get_frame_as_csv(o) ==
    IF ~o.csv_list_initialized
    THEN LET r == convert_frame_to_csv(o, FALSE)
         IN  [obj |-> r.obj, raised |-> r.raised,
              ret |-> IF r.raised = "none" THEN r.obj.csv_list ELSE <<>>]
    ELSE [obj |-> o, raised |-> "none", ret |-> o.csv_list]

\* Mutant: a default name in place of the failing lookup (dict.get).
_convert_class_int_to_string_default(class_int) ==
    IF class_int \in DOMAIN classes_dict
    THEN [raised |-> "none", ret |-> classes_dict[class_int]]
    ELSE [raised |-> "none", ret |-> "Other"]

\* Frame._convert_class_int_to_string
_convert_class_int_to_string(class_int) ==
    IF class_int \in DOMAIN classes_dict
    THEN [raised |-> "none", ret |-> classes_dict[class_int]]
    ELSE [raised |-> "KeyError", ret |-> ""]

\* Mutant: the corners truncated before the sum.
_get_xml_for_bbx_trunc_first(label, bb_data, integer_bb_arg) ==
    LET name == _convert_class_int_to_string(label)
    IN  IF name.raised # "none" THEN [raised |-> name.raised, ret |-> <<>>]
        ELSE [raised |-> "none",
              ret |-> <<[name |-> name.ret,
                         xmin |-> IF integer_bb_arg THEN int(bb_data[1])
                                  ELSE bb_data[1],
                         xmax |-> IF integer_bb_arg
                                  THEN int(bb_data[1]) + int(bb_data[3])
                                  ELSE bb_data[1] + bb_data[3],
                         ymin |-> IF integer_bb_arg THEN int(bb_data[2])
                                  ELSE bb_data[2],
                         ymax |-> IF integer_bb_arg
                                  THEN int(bb_data[2]) + int(bb_data[4])
                                  ELSE bb_data[2] + bb_data[4]]>>]

\* Frame._get_xml_for_bbx: the <object> node, as a record of its fields.
_get_xml_for_bbx(label, bb_data, integer_bb_arg) ==
    LET xmin == bb_data[1]
        xmax == bb_data[1] + bb_data[3]
        ymin == bb_data[2]
        ymax == bb_data[2] + bb_data[4]
        name == _convert_class_int_to_string(label)
    IN  IF name.raised # "none" THEN [raised |-> name.raised, ret |-> <<>>]
        ELSE [raised |-> "none",
              ret |-> <<[name |-> name.ret,
                         xmin |-> IF integer_bb_arg THEN int(xmin) ELSE xmin,
                         xmax |-> IF integer_bb_arg THEN int(xmax) ELSE xmax,
                         ymin |-> IF integer_bb_arg THEN int(ymin) ELSE ymin,
                         ymax |-> IF integer_bb_arg THEN int(ymax) ELSE ymax]>>]

\* The loop of lines 175-178, from index n on, object nodes so far in acc.
RECURSIVE xml_loop(_, _, _, _)
xml_loop(o, n, integer_bb_arg, acc) ==
    IF n > Len(o.objects) THEN [nodes |-> acc, raised |-> "none"]
    ELSE IF Len(o.objects[n]) = 0 THEN [nodes |-> acc, raised |-> "IndexError"]
    ELSE IF keeps_entry(o.objects[n][1])
         THEN IF n > Len(o.bb)
              THEN [nodes |-> acc, raised |-> "IndexError"]
              ELSE LET node == _get_xml_for_bbx(o.objects[n][1], o.bb[n],
                                                integer_bb_arg)
                   IN  IF node.raised # "none"
                       THEN [nodes |-> acc, raised |-> node.raised]
                       ELSE xml_loop(o, n + 1, integer_bb_arg, acc \o node.ret)
         ELSE xml_loop(o, n + 1, integer_bb_arg, acc)

\* Frame.convert_frame_to_VOC_xml: self.xml is assigned only at the end.
convert_frame_to_VOC_xml(o, integer_bb_arg) ==
    LET g == first_len(o.objects)
        r == IF g.raised # "none" THEN [nodes |-> <<>>, raised |-> g.raised]
             ELSE IF g.len > 0 THEN xml_loop(o, 1, integer_bb_arg, <<>>)
             ELSE [nodes |-> <<>>, raised |-> "none"]
    IN  IF r.raised # "none" THEN [obj |-> o, raised |-> r.raised]
        ELSE [obj |-> [o EXCEPT !.xml =
                         <<[folder   |-> SplitLast(o.image_path, "/"),
                            filename |-> o.image_name,
                            path     |-> join(o.image_path, o.image_name),
                            objects  |-> r.nodes]>>],
              raised |-> "none"]

\* The file name of line 261.
xml_filename(o) ==
    join(o.xml_path, SplitFirst(o.image_name, ".") \o <<".", "xml">>)

\* Mutant: the paths tested without strip().
paths_set_no_strip(o) == o.image_path # <<>> /\ o.xml_path # <<>>

\* Whether save_frame_as_xml gets past the two early returns of lines 250-256.
paths_set(o) == strip(o.image_path) # <<>> /\ strip(o.xml_path) # <<>>

\* Frame.save_frame_as_xml, on the files fs.
save_frame_as_xml(o, fs) ==
    IF ~paths_set(o) THEN [obj |-> o, raised |-> "none", files |-> fs]
    ELSE LET r == IF ~o.xml_initialized THEN convert_frame_to_VOC_xml(o, FALSE)
                  ELSE [obj |-> o, raised |-> "none"]
         IN  IF r.raised # "none" THEN [obj |-> r.obj, raised |-> r.raised, files |-> fs]
             ELSE [obj |-> r.obj, raised |-> "none",
                   files |-> [p \in DOMAIN fs \cup {xml_filename(o)} |->
                                IF p = xml_filename(o) THEN r.obj.xml[1] ELSE fs[p]]]

(***************************************************************************)
(* class Frame (convert_mat_to_csv_LEGACY.py): flat rows.  The row is the  *)
(* comma-joined string of lines 92-108, kept as the record of its fields.  *)
(***************************************************************************)

\* Frame.__init__ (LEGACY): no paths and no xml; the record keeps those
\* fields, empty, so that both classes have one shape.
LegacyFrame(frame, image_name, bb, objects, motion, distance) ==
    [frame |-> frame, image_name |-> image_name, bb |-> bb, objects |-> objects,
     motion |-> motion, distance |-> distance,
     image_path |-> <<>>, xml_path |-> <<>>,
     csv_list |-> <<>>, csv_list_initialized |-> FALSE,
     xml |-> <<>>, xml_initialized |-> FALSE]

legacy_entry(o, n, integer_bb_arg) ==
    [image_name |-> o.image_name,
     x_min    |-> IF integer_bb_arg THEN int(o.bb[n][1]) ELSE o.bb[n][1],
     y_min    |-> IF integer_bb_arg THEN int(o.bb[n][2]) ELSE o.bb[n][2],
     width    |-> IF integer_bb_arg THEN int(o.bb[n][3]) ELSE o.bb[n][3],
     height   |-> IF integer_bb_arg THEN int(o.bb[n][4]) ELSE o.bb[n][4],
     class    |-> o.objects[n][1],
     distance |-> o.distance[n][1],
     motion   |-> o.motion[n][1]]

\* The loop of LEGACY lines 88-109.
RECURSIVE legacy_loop(_, _, _, _)
legacy_loop(o, n, integer_bb_arg, acc) ==
    IF n > Len(o.objects) THEN [rows |-> acc, raised |-> "none"]
    ELSE IF Len(o.objects[n]) = 0 THEN [rows |-> acc, raised |-> "IndexError"]
    ELSE IF keeps_entry(o.objects[n][1])
         THEN IF n > Len(o.bb) \/ n > Len(o.distance) \/ n > Len(o.motion)
              THEN [rows |-> acc, raised |-> "IndexError"]
              ELSE legacy_loop(o, n + 1, integer_bb_arg,
                               Append(acc, legacy_entry(o, n, integer_bb_arg)))
         ELSE legacy_loop(o, n + 1, integer_bb_arg, acc)

\* Frame.generate_list_as_csv (LEGACY)
generate_list_as_csv(o, integer_bb_arg) ==
    LET cleared == [o EXCEPT !.csv_list = <<>>]
        g == first_len(o.objects)
    IN  IF g.raised # "none" THEN [obj |-> cleared, raised |-> g.raised]
        ELSE IF g.len > 0
        THEN LET r == legacy_loop(o, 1, integer_bb_arg, <<>>)
             IN  IF r.raised # "none"
                 THEN [obj |-> [o EXCEPT !.csv_list = r.rows], raised |-> r.raised]
                 ELSE [obj |-> [o EXCEPT !.csv_list = r.rows,
                                         !.csv_list_initialized = TRUE],
                       raised |-> "none"]
        ELSE [obj |-> [cleared EXCEPT !.csv_list_initialized = TRUE],
              raised |-> "none"]

\* Frame.get_list_as_csv (LEGACY)
get_list_as_csv(o) ==
    IF ~o.csv_list_initialized
    THEN LET r == generate_list_as_csv(o, FALSE)
         IN  [obj |-> r.obj, raised |-> r.raised,
              ret |-> IF r.raised = "none" THEN r.obj.csv_list ELSE <<>>]
    ELSE [obj |-> o, raised |-> "none", ret |-> o.csv_list]

(***************************************************************************)
(* Frame harness: one Frame object of either script, built from inputs     *)
(* drawn from small sets, on which the methods are called in any order.    *)
(***************************************************************************)

SampleBoxes ==
    << <<107, 202, 54, 59>>, <<100, 200, 50, 50>>, <<10, 10, 10, 10>>,
       <<-15, -5, 17, 12>> >>

SampleCodes == {0, 3, 11}

Coords == {-15, -5, 10, 54, 59, 107, 202}

ImageNames ==
    { <<"MVI_1613_VIS", "_frame", "0", ".", "jpg">>,
      <<"MVI", ".", "v2", "_frame", "0", ".", "jpg">> }

ImagePaths == { <<>>, <<" ">>, <<"frames", "/", "train">> }

XmlPaths == { <<>>, <<" ">>, <<"frames", "/", "train_annotations">> }

\* The per-frame Object arrays: [], [[]] (and [[],[]], ...), one object with
\* any class code, several objects with sample class codes.
ObjectArrays ==
    {<<>>}
    \cup {[j \in 1..n |-> <<>>] : n \in 1..MaxObjs}
    \cup {<<<<c>>>> : c \in 0..MaxCode}
    \cup UNION {[1..n -> {<<c>> : c \in SampleCodes}] : n \in 2..MaxObjs}

\* The BB arrays that go with an Object array: one box per object.
BBArrays(objects) ==
    IF objects = <<>> \/ objects[1] = <<>> THEN {<<>>}
    ELSE {[j \in 1..Len(objects) |-> SampleBoxes[((j - 1 + s) % 4) + 1]] : s \in 0..3}

\* Motion and Distance arrays, one entry per object.
PerObject(objects, v) ==
    IF objects = <<>> \/ objects[1] = <<>> THEN <<>>
    ELSE [j \in 1..Len(objects) |-> <<v + j>>]

NoCall == [op |-> "none", integer_bb |-> FALSE, ret |-> <<>>,
           csv_mode |-> "unset", xml_mode |-> "unset"]

PipeIdle ==
    /\ dirs = <<>>
    /\ frames_tuple = <<{}, {}>>
    /\ integer_bb = FALSE
    /\ entry = "none"
    /\ pc = "harness"
    /\ d = 0
    /\ object_gt_files_dict = <<>>
    /\ k = 0
    /\ gt = <<>>
    /\ i = 0
    /\ frames = <<>>
    /\ object_list_train = <<>>
    /\ object_list_test = <<>>
    /\ object_list = <<>>
    /\ objects_list_train = <<>>
    /\ objects_list_test = <<>>
    /\ objects_list = <<>>
    /\ prev = <<>>

InitFrame ==
    /\ \E objects \in ObjectArrays, name \in ImageNames :
       \E bb \in BBArrays(objects) :
          \/ /\ cls = "Frame"
             /\ \E ip \in ImagePaths, xp \in XmlPaths :
                   self = <<Frame(0, name, bb, objects, PerObject(objects, 0),
                                  PerObject(objects, 100), ip, xp)>>
          \/ /\ cls = "LegacyFrame"
             /\ self = <<LegacyFrame(0, name, bb, objects, PerObject(objects, 0),
                                     PerObject(objects, 100))>>
    /\ call = NoCall
    /\ files = <<>>
    /\ raised = "none"
    /\ PipeIdle

\* One object of class Vessel/ship, its box drawn from all of Coords^4.
InitBox ==
    /\ \E x \in Coords, y \in Coords, w \in Coords, h \in Coords :
          \/ /\ cls = "Frame"
             /\ self = <<Frame(0, <<"MVI_1613_VIS", "_frame", "0", ".", "jpg">>,
                               <<<<x, y, w, h>>>>, <<<<3>>>>, <<<<1>>>>, <<<<100>>>>,
                               <<"frames", "/", "train">>,
                               <<"frames", "/", "train_annotations">>)>>
          \/ /\ cls = "LegacyFrame"
             /\ self = <<LegacyFrame(0, <<"MVI_1613_VIS", "_frame", "0", ".", "jpg">>,
                                     <<<<x, y, w, h>>>>, <<<<3>>>>, <<<<1>>>>,
                                     <<<<100>>>>)>>
    /\ call = NoCall
    /\ files = <<>>
    /\ raised = "none"
    /\ PipeIdle

Mode(b) == IF b THEN "int" ELSE "real"

ConvertFrameToCsv ==
    /\ pc = "harness" /\ cls = "Frame"
    /\ \E b \in BOOLEAN :
          LET r == convert_frame_to_csv(self[1], b)
          IN  /\ self' = <<r.obj>>
              /\ raised' = r.raised
              /\ call' = [call EXCEPT !.op = "convert_frame_to_csv",
                                      !.integer_bb = b, !.ret = <<>>,
                                      !.csv_mode = Mode(b)]
    /\ UNCHANGED <<cls, files, pipe_vars>>

GetFrameAsCsv ==
    /\ pc = "harness" /\ cls = "Frame"
    /\ LET r == get_frame_as_csv(self[1])
       IN  /\ self' = <<r.obj>>
           /\ raised' = r.raised
           /\ call' = [call EXCEPT !.op = "get_frame_as_csv",
                                   !.integer_bb = FALSE, !.ret = r.ret,
                                   !.csv_mode = IF self[1].csv_list_initialized
                                                THEN @ ELSE "real"]
    /\ UNCHANGED <<cls, files, pipe_vars>>

ConvertFrameToVOCXml ==
    /\ pc = "harness" /\ cls = "Frame"
    /\ \E b \in BOOLEAN :
          LET r == convert_frame_to_VOC_xml(self[1], b)
          IN  /\ self' = <<r.obj>>
              /\ raised' = r.raised
              /\ call' = [call EXCEPT !.op = "convert_frame_to_VOC_xml",
                                      !.integer_bb = b, !.ret = <<>>,
                                      !.xml_mode = IF r.raised = "none"
                                                   THEN Mode(b) ELSE @]
    /\ UNCHANGED <<cls, files, pipe_vars>>

SaveFrameAsXml ==
    /\ pc = "harness" /\ cls = "Frame"
    /\ LET r == save_frame_as_xml(self[1], files)
       IN  /\ self' = <<r.obj>>
           /\ raised' = r.raised
           /\ files' = r.files
           /\ call' = [call EXCEPT !.op = "save_frame_as_xml",
                                   !.integer_bb = FALSE, !.ret = <<>>,
                                   !.xml_mode = IF paths_set(self[1])
                                                   /\ r.raised = "none"
                                                THEN "real" ELSE @]
    /\ UNCHANGED <<cls, pipe_vars>>

GenerateListAsCsv ==
    /\ pc = "harness" /\ cls = "LegacyFrame"
    /\ \E b \in BOOLEAN :
          LET r == generate_list_as_csv(self[1], b)
          IN  /\ self' = <<r.obj>>
              /\ raised' = r.raised
              /\ call' = [call EXCEPT !.op = "generate_list_as_csv",
                                      !.integer_bb = b, !.ret = <<>>,
                                      !.csv_mode = Mode(b)]
    /\ UNCHANGED <<cls, files, pipe_vars>>

GetListAsCsv ==
    /\ pc = "harness" /\ cls = "LegacyFrame"
    /\ LET r == get_list_as_csv(self[1])
       IN  /\ self' = <<r.obj>>
           /\ raised' = r.raised
           /\ call' = [call EXCEPT !.op = "get_list_as_csv",
                                   !.integer_bb = FALSE, !.ret = r.ret,
                                   !.csv_mode = IF self[1].csv_list_initialized
                                                THEN @ ELSE "real"]
    /\ UNCHANGED <<cls, files, pipe_vars>>

NextFrame ==
    \/ ConvertFrameToCsv
    \/ GetFrameAsCsv
    \/ ConvertFrameToVOCXml
    \/ SaveFrameAsXml
    \/ GenerateListAsCsv
    \/ GetListAsCsv

SpecFrame == InitFrame /\ [][NextFrame]_vars

SpecBox == InitBox /\ [][NextFrame]_vars

(***************************************************************************)
(* The pipeline of load_mat_into_csv_xml.py.  A container file is a record *)
(* of its name, whether it is a regular file, what loadmat finds in it     *)
(* (status) and its frames; a dict is the sequence of its items in key     *)
(* order.                                                                  *)
(***************************************************************************)

GT_FILES_PATHS_LIST ==
    << <<"NIR", "/", "ObjectGT">>, <<"VIS_Onshore", "/", "ObjectGT">>,
       <<"VIS_Onboard", "/", "ObjectGT">> >>

images_train_path == <<"frames", "/", "train">>
images_test_path == <<"frames", "/", "test">>
xml_annotations_train_path == <<"frames", "/", "train_annotations">>
xml_annotations_test_path == <<"frames", "/", "test_annotations">>

\* dict[key] = value: an existing key keeps its place.
DictSet(dict, key, value) ==
    IF \E j \in 1..Len(dict) : dict[j].key = key
    THEN [j \in 1..Len(dict) |->
            IF dict[j].key = key THEN [key |-> key, value |-> value] ELSE dict[j]]
    ELSE Append(dict, [key |-> key, value |-> value])

\* generate_gt_files_dict, over the listing of the directory at path.
RECURSIVE gt_files_loop(_, _, _)
gt_files_loop(listing, path, dict) ==
    IF listing = <<>> THEN dict
    ELSE LET f == Head(listing)
         IN  gt_files_loop(Tail(listing), path,
                IF f.isfile
                THEN DictSet(dict, replace(SplitFirst(f.file, "."), <<"_ObjectGT">>),
                             [file_name |-> join(path, f.file), content |-> f])
                ELSE dict)

generate_gt_files_dict(listing, path) == gt_files_loop(listing, path, <<>>)

\* loadmat(file_name) followed by gt['structXML'] (lines 308-311, 516-519).
loadmat(item) ==
    IF item.content.status = "no_structXML"
    THEN [raised |-> "KeyError: 'structXML'", gt |-> <<>>]
    ELSE [raised |-> "none", gt |-> <<item.content>>]

\* The image name of lines 315 / 523.
image_name_of(file_name, n) ==
    replace(SplitLast(file_name, "/"), <<"_ObjectGT", ".", "mat">>)
        \o <<"_frame", ToString(n), ".", "jpg">>

\* The four field reads of lines 316-319 / 526-529 / 537-540.
read_fields(container, n) ==
    IF container.status = "no_field"
    THEN [raised |-> "ValueError: no field of name BB", rec |-> <<>>]
    ELSE [raised |-> "none", rec |-> <<container.frames[n + 1]>>]

\* Mutant: a frame whose annotation file is already on disk is passed over.
split_branch_skip_existing(container, n, image_name, image_path, xml_path, fs) ==
    LET fld == read_fields(container, n)
    IN  IF fld.raised # "none"
        THEN [raised |-> fld.raised, frame |-> <<>>, part |-> <<>>, files |-> fs]
        ELSE LET f0 == Frame(n, image_name, fld.rec[1].BB, fld.rec[1].Object,
                             fld.rec[1].Motion, fld.rec[1].Distance,
                             image_path, xml_path)
                 c == get_frame_as_csv(f0)
             IN  IF xml_filename(f0) \in DOMAIN fs
                 THEN [raised |-> "none", frame |-> <<f0>>, part |-> <<>>,
                       files |-> fs]
                 ELSE IF c.raised # "none"
                 THEN [raised |-> c.raised, frame |-> <<c.obj>>, part |-> <<>>,
                       files |-> fs]
                 ELSE LET sv == save_frame_as_xml(c.obj, fs)
                      IN  [raised |-> sv.raised, frame |-> <<sv.obj>>,
                           part |-> c.ret, files |-> sv.files]

\* One branch of lines 525-545: build the Frame, take its rows, save its xml.
split_branch(container, n, image_name, image_path, xml_path, fs) ==
    LET fld == read_fields(container, n)
    IN  IF fld.raised # "none"
        THEN [raised |-> fld.raised, frame |-> <<>>, part |-> <<>>, files |-> fs]
        ELSE LET f0 == Frame(n, image_name, fld.rec[1].BB, fld.rec[1].Object,
                             fld.rec[1].Motion, fld.rec[1].Distance,
                             image_path, xml_path)
                 c == get_frame_as_csv(f0)
             IN  IF c.raised # "none"
                 THEN [raised |-> c.raised, frame |-> <<c.obj>>, part |-> <<>>,
                       files |-> fs]
                 ELSE LET sv == save_frame_as_xml(c.obj, fs)
                      IN  [raised |-> sv.raised, frame |-> <<sv.obj>>,
                           part |-> c.ret, files |-> sv.files]

\* The loop body of get_all_gt_files_in_csv (lines 353-359) and of either
\* branch of get_gt_files_in_csv (lines 405-417).
rows_of(frame, integer_bb_arg) ==
    LET c == convert_frame_to_csv(frame, integer_bb_arg)
    IN  IF c.raised # "none" THEN [raised |-> c.raised, obj |-> c.obj, part |-> <<>>]
        ELSE LET g == get_frame_as_csv(c.obj)
             IN  [raised |-> g.raised, obj |-> g.obj, part |-> g.ret]

\* Mutant: the test set looked at first.
bucket_of_test_first(image_name, train_frames, test_frames) ==
    IF image_name \in test_frames THEN "test"
    ELSE IF image_name \in train_frames THEN "train"
    ELSE "none"

\* Mutant: "else" in place of "elif image_name in test_frames".
bucket_of_else_test(image_name, train_frames, test_frames) ==
    IF image_name \in train_frames THEN "train" ELSE "test"

\* The routing of lines 525/536 and 404/411.
bucket_of(image_name, train_frames, test_frames) ==
    IF image_name \in train_frames THEN "train"
    ELSE IF image_name \in test_frames THEN "test"
    ELSE "none"

(***************************************************************************)
(* Pipeline inputs.                                                        *)
(***************************************************************************)

FrameRec(bb, objects) ==
    [BB |-> bb, Object |-> objects,
     Motion |-> PerObject(objects, 0), Distance |-> PerObject(objects, 100)]

Container(video, status, frs) ==
    [file |-> <<video, "_ObjectGT", ".", "mat">>, isfile |-> TRUE,
     status |-> status, frames |-> frs]

\* The container files a directory may hold.
Dataset ==
    { Container("MVI_1", "ok",
                << FrameRec(<< <<100, 200, 50, 50>>, <<10, 10, 10, 10>> >>,
                            << <<3>>, <<0>> >>),
                   FrameRec(<<>>, << <<>> >>) >>),
      Container("MVI_2", "ok",
                << FrameRec(<< <<107, 202, 54, 59>> >>, << <<1>> >>) >>),
      Container("MVI_3", "no_structXML", <<>>),
      Container("MVI_4", "ok", <<>>),
      Container("MVI_5", "ok",
                << FrameRec(<< <<10, 10, 10, 10>> >>, << <<11>> >>),
                   FrameRec(<<>>, <<>>) >>),
      Container("MVI_6", "no_field", << FrameRec(<<>>, <<>>) >>) }

Img(video, n) == <<video, "_frame", ToString(n), ".", "jpg">>

\* The train/test frame names tried.
FramesTuples ==
    { << {Img("MVI_1", 0), Img("MVI_5", 1), Img("MVI_6", 0)},
         {Img("MVI_1", 1), Img("MVI_2", 0)} >>,
      << {Img("MVI_1", 0), Img("MVI_2", 0), Img("MVI_5", 0)},
         {Img("MVI_2", 0), Img("MVI_5", 1)} >>,
      << {Img("MVI_1", 0)}, {Img("MVI_1", 1)} >> }

\* The files of s that a (a directory index per file) puts in directory j.
RECURSIVE InDir(_, _, _)
InDir(s, a, j) ==
    IF s = <<>> THEN <<>>
    ELSE IF Head(a) = j THEN <<Head(s)>> \o InDir(Tail(s), Tail(a), j)
    ELSE InDir(Tail(s), Tail(a), j)

\* Every listing of the three directories with at most MaxFiles files in all,
\* in every listing order, no file name twice in one directory.
Layouts ==
    { lay \in UNION { { [j \in 1..Len(GT_FILES_PATHS_LIST) |-> InDir(s, a, j)] :
                        a \in {b \in [1..n -> 1..Len(GT_FILES_PATHS_LIST)] :
                                  \A x \in 1..n, y \in 1..n : x < y => b[x] <= b[y]},
                        s \in [1..n -> Dataset] } : n \in 0..MaxFiles } :
        \A j \in 1..Len(lay) : \A x \in 1..Len(lay[j]), y \in 1..Len(lay[j]) :
            x # y => lay[j][x].file # lay[j][y].file }

Entries ==
    {"get_all_gt_files_in_csv", "get_gt_files_in_csv",
     "generate_split_dataset_csv_xml"}

Init ==
    /\ dirs \in Layouts
    /\ frames_tuple \in FramesTuples
    /\ integer_bb \in BOOLEAN
    /\ entry \in Entries
    /\ pc = "driver"
    /\ d = 1
    /\ object_gt_files_dict = <<>>
    /\ k = 0
    /\ gt = <<>>
    /\ i = 0
    /\ frames = <<>>
    /\ object_list_train = <<>>
    /\ object_list_test = <<>>
    /\ object_list = <<>>
    /\ objects_list_train = <<>>
    /\ objects_list_test = <<>>
    /\ objects_list = <<>>
    /\ prev = <<>>
    /\ files = <<>>
    /\ raised = "none"
    /\ self = <<>>
    /\ cls = "none"
    /\ call = NoCall

inputs == <<dirs, frames_tuple, integer_bb, entry>>

\* Where the entry point goes once container k is finished.
after_key(dict, key) ==
    IF key < Len(dict) THEN "keys"
    ELSE IF entry = "generate_split_dataset_csv_xml" THEN "return" ELSE "rows"

\* Lines 600-601 (and 602-603): the driver calls the entry point on the next
\* directory; the entry point builds its dict (lines 506-511, 302-303).
CallEntry ==
    /\ pc = "driver" /\ d <= Len(GT_FILES_PATHS_LIST)
    /\ LET dict == generate_gt_files_dict(dirs[d], GT_FILES_PATHS_LIST[d])
       IN  /\ object_gt_files_dict' = dict
           /\ pc' = after_key(dict, 0)
    /\ k' = 1
    /\ i' = 0
    /\ gt' = <<>>
    /\ frames' = <<>>
    /\ object_list_train' = <<>>
    /\ object_list_test' = <<>>
    /\ object_list' = <<>>
    /\ UNCHANGED <<inputs, prev, d, files, raised, objects_list_train, objects_list_test,
                   objects_list, harness_vars>>

\* Mutant: the first frame is read before the frame count is looked at.
LoadMat_reads_first_frame ==
    /\ pc = "keys"
    /\ LET r == loadmat(object_gt_files_dict[k].value)
       IN  IF r.raised # "none"
           THEN /\ raised' = r.raised
                /\ pc' = "aborted"
                /\ UNCHANGED <<gt, i, k>>
           ELSE /\ gt' = r.gt
                /\ i' = 0
                /\ IF Len(r.gt[1].frames) = 0
                   THEN /\ raised' = "IndexError"
                        /\ pc' = "aborted"
                        /\ k' = k
                   ELSE /\ raised' = "none"
                        /\ pc' = "frames"
                        /\ k' = k
    /\ UNCHANGED <<inputs, prev, d, object_gt_files_dict, frames, files, object_list_train,
                   object_list_test, object_list, objects_list_train,
                   objects_list_test, objects_list, harness_vars>>

\* Lines 514-519 / 306-311: load the container of key k, count its frames.
LoadMat ==
    /\ pc = "keys"
    /\ LET r == loadmat(object_gt_files_dict[k].value)
       IN  IF r.raised # "none"
           THEN /\ raised' = r.raised
                /\ pc' = "aborted"
                /\ UNCHANGED <<gt, i, k>>
           ELSE /\ gt' = r.gt
                /\ i' = 0
                /\ raised' = "none"
                /\ IF Len(r.gt[1].frames) = 0
                   THEN /\ pc' = after_key(object_gt_files_dict, k)
                        /\ k' = IF k < Len(object_gt_files_dict) THEN k + 1 ELSE 1
                   ELSE /\ pc' = "frames"
                        /\ k' = k
    /\ UNCHANGED <<inputs, prev, d, object_gt_files_dict, frames, files, object_list_train,
                   object_list_test, object_list, objects_list_train,
                   objects_list_test, objects_list, harness_vars>>

\* The end of one pass of the frame loop: next frame, next key, or out.
FrameDone ==
    IF i + 1 < Len(gt[1].frames)
    THEN /\ i' = i + 1
         /\ pc' = "frames"
         /\ k' = k
    ELSE /\ i' = 0
         /\ pc' = after_key(object_gt_files_dict, k)
         /\ k' = IF k < Len(object_gt_files_dict) THEN k + 1 ELSE 1

\* Lines 522-545: one pass of the frame loop of generate_split_dataset_csv_xml.
SplitFrame ==
    /\ pc = "frames" /\ entry = "generate_split_dataset_csv_xml"
    /\ LET image_name == image_name_of(object_gt_files_dict[k].value.file_name, i)
           b == bucket_of(image_name, frames_tuple[1], frames_tuple[2])
           r == IF b = "train"
                THEN split_branch(gt[1], i, image_name, images_train_path,
                                  xml_annotations_train_path, files)
                ELSE split_branch(gt[1], i, image_name, images_test_path,
                                  xml_annotations_test_path, files)
       IN  IF b = "none"
           THEN /\ FrameDone
                /\ UNCHANGED <<frames, files, raised, object_list_train,
                               object_list_test>>
           ELSE /\ frames' = IF r.frame = <<>> THEN frames
                             ELSE DictSet(frames, image_name, r.frame[1])
                /\ files' = r.files
                /\ raised' = r.raised
                /\ object_list_train' =
                      IF b = "train" THEN object_list_train \o r.part
                      ELSE object_list_train
                /\ object_list_test' =
                      IF b = "test" THEN object_list_test \o r.part
                      ELSE object_list_test
                /\ IF r.raised # "none"
                   THEN pc' = "aborted" /\ UNCHANGED <<i, k>>
                   ELSE FrameDone
    /\ UNCHANGED <<inputs, prev, d, object_gt_files_dict, gt, object_list,
                   objects_list_train, objects_list_test, objects_list,
                   harness_vars>>

\* Lines 314-321: one pass of the frame loop of load_mat_files_in_dict.
LoadFrame ==
    /\ pc = "frames" /\ entry # "generate_split_dataset_csv_xml"
    /\ LET image_name == image_name_of(object_gt_files_dict[k].value.file_name, i)
           fld == read_fields(gt[1], i)
       IN  IF fld.raised # "none"
           THEN /\ raised' = fld.raised
                /\ pc' = "aborted"
                /\ UNCHANGED <<frames, i, k>>
           ELSE /\ frames' = DictSet(frames, image_name,
                                Frame(i, image_name, fld.rec[1].BB, fld.rec[1].Object,
                                      fld.rec[1].Motion, fld.rec[1].Distance,
                                      <<>>, <<>>))
                /\ raised' = "none"
                /\ FrameDone
    /\ UNCHANGED <<inputs, prev, d, object_gt_files_dict, gt, files, object_list_train,
                   object_list_test, object_list, objects_list_train,
                   objects_list_test, objects_list, harness_vars>>

\* Lines 352-359 and 403-417: one pass of the loop over frames.keys().
FrameRows ==
    /\ pc = "rows" /\ k <= Len(frames)
    /\ LET key == frames[k].key
           b == IF entry = "get_all_gt_files_in_csv" THEN "all"
                ELSE bucket_of(key, frames_tuple[1], frames_tuple[2])
           r == rows_of(frames[k].value, integer_bb)
       IN  IF b = "none"
           THEN /\ k' = k + 1
                /\ UNCHANGED <<frames, raised, pc, object_list_train,
                               object_list_test, object_list>>
           ELSE /\ frames' = [frames EXCEPT ![k].value = r.obj]
                /\ raised' = r.raised
                /\ object_list_train' =
                      IF b = "train" THEN object_list_train \o r.part
                      ELSE object_list_train
                /\ object_list_test' =
                      IF b = "test" THEN object_list_test \o r.part
                      ELSE object_list_test
                /\ object_list' =
                      IF b = "all" THEN object_list \o r.part ELSE object_list
                /\ IF r.raised # "none"
                   THEN pc' = "aborted" /\ k' = k
                   ELSE pc' = "rows" /\ k' = k + 1
    /\ UNCHANGED <<inputs, prev, d, object_gt_files_dict, gt, i, files,
                   objects_list_train, objects_list_test, objects_list,
                   harness_vars>>

\* The entry point returns (lines 547, 424, 364) and the driver adds its rows
\* to its own lists (lines 604-605); after the last directory the lists are
\* exported (lines 613-617).
Return ==
    /\ \/ pc = "return"
       \/ pc = "rows" /\ k > Len(frames)
    /\ objects_list_train' = objects_list_train \o object_list_train
    /\ objects_list_test' = objects_list_test \o object_list_test
    /\ objects_list' = objects_list \o object_list
    /\ d' = d + 1
    /\ pc' = IF d = Len(GT_FILES_PATHS_LIST) THEN "done" ELSE "driver"
    /\ UNCHANGED <<inputs, prev, object_gt_files_dict, k, gt, i, frames, files, raised,
                   object_list_train, object_list_test, object_list, harness_vars>>

Next ==
    \/ CallEntry
    \/ LoadMat
    \/ SplitFrame
    \/ LoadFrame
    \/ FrameRows
    \/ Return

Spec == Init /\ [][Next]_vars

SpecAll == (Init \/ InitFrame) /\ [][Next \/ NextFrame]_vars

(***************************************************************************)
(* The script on file names of any form, and the script run a second time  *)
(* on the same directories.  listdir returns the names "in arbitrary       *)
(* order", so the second run may be handed another order of the same       *)
(* files; the annotation files the first run wrote are still on disk.      *)
(***************************************************************************)

\* A container file under a name of any form.
NamedContainer(file, status, frs) ==
    [file |-> file, isfile |-> TRUE, status |-> status, frames |-> frs]

\* Container files a directory may hold: a regular one, one without frames,
\* one whose name holds an extra '.', two whose names do not end in
\* _ObjectGT.mat (one of them without frames, with the key of the regular
\* one), and one holding a class code outside the vocabulary.
OddDataset ==
    { Container("MVI_2", "ok",
                << FrameRec(<< <<107, 202, 54, 59>> >>, << <<1>> >>) >>),
      Container("MVI_4", "ok", <<>>),
      NamedContainer(<<"MVI_2", ".", "mat">>, "ok", <<>>),
      NamedContainer(<<"MVI", ".", "v2", "_ObjectGT", ".", "mat">>, "ok",
                     << FrameRec(<< <<100, 200, 50, 50>> >>, << <<3>> >>),
                        FrameRec(<< <<10, 10, 10, 10>> >>, << <<5>> >>) >>),
      NamedContainer(<<"MVI_7", ".", "mat">>, "ok",
                     << FrameRec(<< <<10, 10, 10, 10>> >>, << <<2>> >>) >>),
      Container("MVI_5", "ok",
                << FrameRec(<< <<10, 10, 10, 10>> >>, << <<11>> >>) >>) }

\* The train and test image names that go with OddDataset, as the files of
\* the train and test directories name the frames.
OddFramesTuple ==
    << { Img("MVI_2", 0), Img("MVI_5", 0),
         <<"MVI", ".", "v2", "_frame", "0", ".", "jpg">>,
         <<"MVI", ".", "v2", "_frame", "1", ".", "jpg">> },
       { <<"MVI_7", ".", "mat", "_frame", "0", ".", "jpg">> } >>

\* Layouts, over the files of OddDataset.
OddLayouts ==
    { lay \in UNION { { [j \in 1..Len(GT_FILES_PATHS_LIST) |-> InDir(s, a, j)] :
                        a \in {b \in [1..n -> 1..Len(GT_FILES_PATHS_LIST)] :
                                  \A x \in 1..n, y \in 1..n : x < y => b[x] <= b[y]},
                        s \in [1..n -> OddDataset] } : n \in 0..MaxFiles } :
        \A j \in 1..Len(lay) : \A x \in 1..Len(lay[j]), y \in 1..Len(lay[j]) :
            x # y => lay[j][x].file # lay[j][y].file }

InitTwice ==
    /\ dirs \in OddLayouts
    /\ frames_tuple = OddFramesTuple
    /\ integer_bb = FALSE
    /\ entry \in Entries
    /\ pc = "driver"
    /\ d = 1
    /\ object_gt_files_dict = <<>>
    /\ k = 0
    /\ gt = <<>>
    /\ i = 0
    /\ frames = <<>>
    /\ object_list_train = <<>>
    /\ object_list_test = <<>>
    /\ object_list = <<>>
    /\ objects_list_train = <<>>
    /\ objects_list_test = <<>>
    /\ objects_list = <<>>
    /\ prev = <<>>
    /\ files = <<>>
    /\ raised = "none"
    /\ self = <<>>
    /\ cls = "none"
    /\ call = NoCall

\* Every order listdir may return the files of each directory in.
Reorderings(listings) ==
    { lay \in [1..Len(listings) ->
                 UNION { { [x \in 1..Len(listings[j]) |-> listings[j][p[x]]] :
                           p \in Permutations(1..Len(listings[j])) } :
                         j \in 1..Len(listings) }] :
        \A j \in 1..Len(listings) :
           \E p \in Permutations(1..Len(listings[j])) :
              lay[j] = [x \in 1..Len(listings[j]) |-> listings[j][p[x]]] }

\* The container has no frame: len(gt['structXML'][0]) is 0.
NoFrames(f) == f.status = "ok" /\ f.frames = <<>>

\* The listings without the containers that have no frame.
WithoutEmpty(listings) ==
    [j \in 1..Len(listings) |-> SelectSeq(listings[j], LAMBDA f : ~NoFrames(f))]

\* The script is started again (lines 598-599): its lists are empty, what the
\* finished run left is kept in prev.
Restart(kind, listings, disk) ==
    /\ prev' = <<[kind |-> kind, dirs |-> dirs, train |-> objects_list_train,
                  test |-> objects_list_test, all |-> objects_list,
                  files |-> files]>>
    /\ dirs' = listings
    /\ files' = disk
    /\ raised' = "none"
    /\ pc' = "driver"
    /\ d' = 1
    /\ object_gt_files_dict' = <<>>
    /\ k' = 0
    /\ gt' = <<>>
    /\ i' = 0
    /\ frames' = <<>>
    /\ object_list_train' = <<>>
    /\ object_list_test' = <<>>
    /\ object_list' = <<>>
    /\ objects_list_train' = <<>>
    /\ objects_list_test' = <<>>
    /\ objects_list' = <<>>
    /\ UNCHANGED <<frames_tuple, integer_bb, entry, harness_vars>>

\* A second run over the same files and the same train/test images; listdir
\* may give the files of a directory in another order.
RunAgain ==
    /\ pc = "done" /\ prev = <<>>
    /\ \E lay \in Reorderings(dirs) : Restart("again", lay, files)

\* The run repeated from the same disk with the containers that have no
\* frame taken out of the directories.
RunWithoutEmpty ==
    /\ pc = "done" /\ prev = <<>>
    /\ \E j \in 1..Len(dirs) : \E y \in 1..Len(dirs[j]) : NoFrames(dirs[j][y])
    /\ Restart("without", WithoutEmpty(dirs), <<>>)

NextTwice ==
    \/ Next
    \/ RunAgain
    \/ RunWithoutEmpty

SpecTwice == InitTwice /\ [][NextTwice]_vars

(***************************************************************************)
(* Frame harness on frames whose BB, Object, Motion and Distance arrays    *)
(* are not of one length.                                                  *)
(***************************************************************************)

\* Object arrays of 1..MaxObjs sample class codes, with a BB array of
\* 0..MaxObjs+1 boxes, a Motion array of as many entries or one more, and a
\* Distance array of as many entries: all but the equal-length combinations.
MismatchedArrays ==
    { a \in UNION { [objects : [1..n -> {<<c>> : c \in SampleCodes}],
                     bb : {[j \in 1..m |-> SampleBoxes[((j - 1) % 4) + 1]] :
                              m \in 0..(MaxObjs + 1)},
                     motion : {[j \in 1..q |-> <<j>>] : q \in {n, n + 1}},
                     distance : {[j \in 1..n |-> <<100 + j>>]}] :
                    n \in 1..MaxObjs } :
        Len(a.bb) # Len(a.objects) \/ Len(a.motion) # Len(a.objects) }

InitMismatch ==
    /\ \E a \in MismatchedArrays :
          \/ /\ cls = "Frame"
             /\ self = <<Frame(0, <<"MVI_1613_VIS", "_frame", "0", ".", "jpg">>,
                               a.bb, a.objects, a.motion, a.distance,
                               <<"frames", "/", "train">>,
                               <<"frames", "/", "train_annotations">>)>>
          \/ /\ cls = "LegacyFrame"
             /\ self = <<LegacyFrame(0, <<"MVI_1613_VIS", "_frame", "0", ".", "jpg">>,
                                     a.bb, a.objects, a.motion, a.distance)>>
    /\ call = NoCall
    /\ files = <<>>
    /\ raised = "none"
    /\ PipeIdle

SpecMismatch == InitMismatch /\ [][NextFrame]_vars

(***************************************************************************)
(* Frame harness on two Frame objects of one class, the csv methods called *)
(* on either in any order.  csv_list is declared in the class body (lines  *)
(* 44-45), but convert_frame_to_csv assigns self.csv_list before it        *)
(* appends (line 108), so every object that has a list has its own: the    *)
(* csv_list field of its record.                                           *)
(***************************************************************************)

\* The Object arrays of the second Frame.
OtherObjectArrays == { << <<3>> >>, << <<3>>, <<0>> >>, << <<>> >> }

CacheNoCall == [op |-> "none", integer_bb |-> FALSE, ret |-> <<>>,
                csv_mode |-> "unset", xml_mode |-> "unset",
                target |-> 0, modes |-> <<"unset", "unset">>]

InitCache ==
    /\ \E objects \in ObjectArrays, others \in OtherObjectArrays :
       \E bb \in BBArrays(objects), bbo \in BBArrays(others) :
          \/ /\ cls = "Frame"
             /\ self = << Frame(0, <<"MVI_1613_VIS", "_frame", "0", ".", "jpg">>,
                                bb, objects, PerObject(objects, 0),
                                PerObject(objects, 100), <<>>, <<>>),
                          Frame(1, <<"MVI_1613_VIS", "_frame", "1", ".", "jpg">>,
                                bbo, others, PerObject(others, 10),
                                PerObject(others, 200), <<>>, <<>>) >>
          \/ /\ cls = "LegacyFrame"
             /\ self = << LegacyFrame(0, <<"MVI_1613_VIS", "_frame", "0", ".", "jpg">>,
                                      bb, objects, PerObject(objects, 0),
                                      PerObject(objects, 100)),
                          LegacyFrame(1, <<"MVI_1613_VIS", "_frame", "1", ".", "jpg">>,
                                      bbo, others, PerObject(others, 10),
                                      PerObject(others, 200)) >>
    /\ call = CacheNoCall
    /\ files = <<>>
    /\ raised = "none"
    /\ PipeIdle

\* convert_frame_to_csv / generate_list_as_csv called on one of the objects.
ConvertOn ==
    /\ pc = "harness"
    /\ \E j \in 1..Len(self), b \in BOOLEAN :
          LET r == IF cls = "Frame" THEN convert_frame_to_csv(self[j], b)
                   ELSE generate_list_as_csv(self[j], b)
          IN  /\ self' = [self EXCEPT ![j] = r.obj]
              /\ raised' = r.raised
              /\ call' = [call EXCEPT !.op = "convert", !.target = j,
                                      !.integer_bb = b, !.ret = <<>>,
                                      !.modes[j] = IF r.raised = "none"
                                                   THEN Mode(b) ELSE @]
    /\ UNCHANGED <<cls, files, pipe_vars>>

\* get_frame_as_csv / get_list_as_csv called on one of the objects.
GetOn ==
    /\ pc = "harness"
    /\ \E j \in 1..Len(self) :
          LET r == IF cls = "Frame" THEN get_frame_as_csv(self[j])
                   ELSE get_list_as_csv(self[j])
          IN  /\ self' = [self EXCEPT ![j] = r.obj]
              /\ raised' = r.raised
              /\ call' = [call EXCEPT !.op = "get", !.target = j,
                                      !.integer_bb = FALSE, !.ret = r.ret,
                                      !.modes[j] = IF ~self[j].csv_list_initialized
                                                      /\ r.raised = "none"
                                                   THEN "real" ELSE @]
    /\ UNCHANGED <<cls, files, pipe_vars>>

NextCache ==
    \/ ConvertOn
    \/ GetOn

SpecCache == InitCache /\ [][NextCache]_vars

(***************************************************************************)
(* Properties.  What a row or a node should be is stated here from the     *)
(* inputs alone, without the operators of the model above.                 *)
(***************************************************************************)

\* t is v truncated toward zero to a whole number (both in tenths).
IsTrunc(t, v) ==
    /\ t % 10 = 0
    /\ IF v >= 0 THEN t <= v /\ v < t + 10 ELSE t >= v /\ v > t - 10

\* The name the vocabulary gives to a class code.
VocabName(code) ==
    CASE code = 1 -> "Ferry" [] code = 2 -> "Buoy" [] code = 3 -> "Vessel/ship"
      [] code = 4 -> "Speed boat" [] code = 5 -> "Boat" [] code = 6 -> "Kayak"
      [] code = 7 -> "Sail boat" [] code = 8 -> "Swimming person"
      [] code = 9 -> "Flying bird/plane" [] code = 10 -> "Other"
      [] OTHER -> "?"

\* Input index n of a frame holds an object with a non-zero class code.
NonZeroAt(objects, n) ==
    n \in 1..Len(objects) /\ objects[n] # <<>> /\ objects[n][1] # 0

\* The indexes with a non-zero class code, in input order.
RECURSIVE NonZeroFrom(_, _)
NonZeroFrom(objects, n) ==
    IF n > Len(objects) THEN <<>>
    ELSE IF NonZeroAt(objects, n) THEN <<n>> \o NonZeroFrom(objects, n + 1)
    ELSE NonZeroFrom(objects, n + 1)

\* A detection row made from input index n of a frame, in either mode.
RowFromIndex(row, bb, objects, n) ==
    /\ NonZeroAt(objects, n)
    /\ row.class = objects[n][1]
    /\ row.class # 0
    /\ \/ /\ row.xmin = bb[n][1] /\ row.ymin = bb[n][2]
          /\ row.width = bb[n][3] /\ row.height = bb[n][4]
       \/ /\ IsTrunc(row.xmin, bb[n][1]) /\ IsTrunc(row.ymin, bb[n][2])
          /\ IsTrunc(row.width, bb[n][3]) /\ IsTrunc(row.height, bb[n][4])

\* A legacy row made from input index n of a frame, in either mode.
LegacyRowFromIndex(row, bb, objects, n) ==
    /\ NonZeroAt(objects, n)
    /\ row.class = objects[n][1]
    /\ row.class # 0
    /\ \/ /\ row.x_min = bb[n][1] /\ row.y_min = bb[n][2]
          /\ row.width = bb[n][3] /\ row.height = bb[n][4]
       \/ /\ IsTrunc(row.x_min, bb[n][1]) /\ IsTrunc(row.y_min, bb[n][2])
          /\ IsTrunc(row.width, bb[n][3]) /\ IsTrunc(row.height, bb[n][4])

\* An <object> node made from input index n of a frame, in either mode.
NodeFromIndex(node, bb, objects, n) ==
    /\ NonZeroAt(objects, n)
    /\ node.name = VocabName(objects[n][1])
    /\ \/ node.xmin = bb[n][1] /\ node.ymin = bb[n][2]
       \/ IsTrunc(node.xmin, bb[n][1]) /\ IsTrunc(node.ymin, bb[n][2])

\* Every row of a Frame's list comes, in order, from the non-zero indexes.
RowsFromNonZero(o, legacy) ==
    LET nz == NonZeroFrom(o.objects, 1)
    IN  /\ Len(o.csv_list) <= Len(nz)
        /\ o.csv_list_initialized /\ o.objects # <<>> /\ o.objects[1] # <<>>
              => Len(o.csv_list) = Len(nz)
        /\ \A j \in 1..Len(o.csv_list) :
              IF legacy THEN LegacyRowFromIndex(o.csv_list[j], o.bb, o.objects, nz[j])
              ELSE RowFromIndex(o.csv_list[j], o.bb, o.objects, nz[j])

\* Every node of a document comes, in order, from the non-zero indexes.
NodesFromNonZero(doc, bb, objects) ==
    LET nz == NonZeroFrom(objects, 1)
    IN  /\ Len(doc.objects) = Len(nz)
        /\ \A j \in 1..Len(doc.objects) :
              NodeFromIndex(doc.objects[j], bb, objects, nz[j])

\* The frames of the containers in the directories, with the image name the
\* data set gives them: <video>_frame<n>.jpg.
SourceFrames ==
    UNION { UNION { { [image_name |-> <<dirs[x][y].file[1], "_frame", ToString(n - 1),
                                        ".", "jpg">>,
                       rec |-> dirs[x][y].frames[n]] :
                      n \in 1..Len(dirs[x][y].frames) } :
                    y \in 1..Len(dirs[x]) } :
            x \in 1..Len(dirs) }

\* Every row list of the pipeline, one after the other.
AllRows ==
    object_list_train \o object_list_test \o object_list
        \o objects_list_train \o objects_list_test \o objects_list

\* C1: every emitted row and every <object> node comes from an input index
\* whose class code is non-zero: in the Frame's own list and document, in
\* every row list of the pipeline and in every stored document; an entry
\* with class code 0 never produces one.
C1_OnlyNonZeroEmitted ==
    /\ self # <<>> =>
          /\ RowsFromNonZero(self[1], cls = "LegacyFrame")
          /\ self[1].xml # <<>> =>
                NodesFromNonZero(self[1].xml[1], self[1].bb, self[1].objects)
    /\ \A j \in 1..Len(AllRows) :
          \E f \in SourceFrames :
             /\ f.image_name = AllRows[j].filename
             /\ \E n \in 1..Len(f.rec.Object) :
                   RowFromIndex(AllRows[j], f.rec.BB, f.rec.Object, n)
    /\ \A p \in DOMAIN files :
          \/ self # <<>> /\ NodesFromNonZero(files[p], self[1].bb, self[1].objects)
          \/ \E f \in SourceFrames :
                /\ f.image_name = files[p].filename
                /\ NodesFromNonZero(files[p], f.rec.BB, f.rec.Object)
    /\ \A j \in 1..Len(frames) :
          RowsFromNonZero(frames[j].value, FALSE)

\* C1 witness: classes [3,0] have yielded exactly the one class-3 row, and
\* the document of the same frame exactly the one Vessel/ship node.
C1_Witness ==
    /\ self # <<>>
    /\ self[1].objects = << <<3>>, <<0>> >>
    /\ self[1].csv_list_initialized
    /\ Len(self[1].csv_list) = 1
    /\ self[1].csv_list[1].class = 3
    /\ self[1].xml # <<>>
    /\ Len(self[1].xml[1].objects) = 1
    /\ self[1].xml[1].objects[1].name = "Vessel/ship"

\* The Frame under test has the degenerate [[]] Object array.
Degenerate == self # <<>> /\ Len(self[1].objects) = 1 /\ self[1].objects[1] = <<>>

\* C2: a Frame whose Object array is [[]] yields no entry and raises nothing:
\* convert_frame_to_csv and generate_list_as_csv in either mode leave an empty
\* list, get_frame_as_csv / get_list_as_csv return it, and the document has
\* no <object> node.
C2_DegenerateYieldsNothing ==
    Degenerate =>
        /\ raised = "none"
        /\ self[1].csv_list = <<>>
        /\ call.ret = <<>>
        /\ call.op \in {"convert_frame_to_csv", "generate_list_as_csv",
                        "get_frame_as_csv", "get_list_as_csv"}
              => self[1].csv_list_initialized
        /\ call.op = "convert_frame_to_VOC_xml" => self[1].xml # <<>>
        /\ self[1].xml # <<>> => self[1].xml[1].objects = <<>>
        /\ \A p \in DOMAIN files : files[p].objects = <<>>

\* C2 witness: both conversions have run on a [[]] frame, the csv one in
\* integer mode.
C2_Witness ==
    /\ Degenerate
    /\ call.csv_mode = "int"
    /\ self[1].csv_list_initialized
    /\ self[1].csv_list = <<>>
    /\ self[1].xml # <<>>
    /\ self[1].xml[1].objects = <<>>

\* The entry points that take the train/test frame names.
Splitting == entry \in {"get_gt_files_in_csv", "generate_split_dataset_csv_xml"}

\* C3: with train/test frame names supplied, every train row names an image
\* of the train set and every test row an image of the test set, so a frame in
\* neither set has no row in either list; and every stored document is that
\* of an image in one of the sets, stored under that bucket's directory.
C3_MembershipFilter ==
    Splitting =>
        /\ \A j \in 1..Len(object_list_train) :
              object_list_train[j].filename \in frames_tuple[1]
        /\ \A j \in 1..Len(objects_list_train) :
              objects_list_train[j].filename \in frames_tuple[1]
        /\ \A j \in 1..Len(object_list_test) :
              object_list_test[j].filename \in frames_tuple[2]
        /\ \A j \in 1..Len(objects_list_test) :
              objects_list_test[j].filename \in frames_tuple[2]
        /\ \A f \in SourceFrames :
              f.image_name \notin (frames_tuple[1] \cup frames_tuple[2]) =>
                 /\ \A j \in 1..Len(AllRows) : AllRows[j].filename # f.image_name
                 /\ \A p \in DOMAIN files : files[p].filename # f.image_name
        /\ \A p \in DOMAIN files :
              \/ /\ files[p].filename \in frames_tuple[1]
                 /\ files[p].folder = <<"train">>
              \/ /\ files[p].filename \in frames_tuple[2]
                 /\ files[p].folder = <<"test">>

\* C3 witness: a finished split run over containers MVI_1 and MVI_2 in which
\* frame 0 of MVI_2, which holds an object, is in neither set, while train
\* rows and a document were produced.
C3_Witness ==
    /\ pc = "done"
    /\ entry = "generate_split_dataset_csv_xml"
    /\ \E f \in SourceFrames :
          /\ f.image_name = <<"MVI_2", "_frame", "0", ".", "jpg">>
          /\ f.image_name \notin (frames_tuple[1] \cup frames_tuple[2])
          /\ NonZeroAt(f.rec.Object, 1)
    /\ objects_list_train # <<>>
    /\ files # <<>>

\* The mode the rows of the Frame under test were generated in.
RowsInMode(m) == self # <<>> /\ cls = "Frame" /\ call.csv_mode = m

\* C4 as stated: in every detection row, xmax - xmin = width and
\* ymax - ymin = height, in real mode and in integer mode alike.
C4_Original ==
    self # <<>> /\ cls = "Frame" =>
        \A j \in 1..Len(self[1].csv_list) :
            LET row == self[1].csv_list[j]
            IN  /\ row.xmax - row.xmin = row.width
                /\ row.ymax - row.ymin = row.height

\* One axis of the amended C4 in integer mode: lo, size, hi are the row's
\* fields, v and s the input's min coordinate and extent.
AxisWithinOne(lo, size, hi, v, s) ==
    /\ hi - lo - size \in {-10, 0, 10}
    /\ v >= 0 /\ s >= 0 =>
          /\ hi - lo - size \in {0, 10}
          /\ (hi - lo = size) <=> ((v % 10) + (s % 10) < 10)

\* C4 amended: in real mode xmax - xmin = width and ymax - ymin = height
\* exactly; in integer mode the difference is within one of the truncated
\* extent, and for non-negative inputs it is the extent or the extent plus
\* one, the extent exactly when the fractional parts of the min coordinate
\* and of the extent sum to less than one.
C4_CornerRoundTrip ==
    /\ RowsInMode("real") =>
          \A j \in 1..Len(self[1].csv_list) :
              LET row == self[1].csv_list[j]
              IN  /\ row.xmax - row.xmin = row.width
                  /\ row.ymax - row.ymin = row.height
    /\ RowsInMode("int") =>
          \A j \in 1..Len(self[1].csv_list) :
              LET row == self[1].csv_list[j]
                  box == self[1].bb[NonZeroFrom(self[1].objects, 1)[j]]
              IN  /\ AxisWithinOne(row.xmin, row.width, row.xmax, box[1], box[3])
                  /\ AxisWithinOne(row.ymin, row.height, row.ymax, box[2], box[4])

\* C4 witness: an integer-mode row of box (10.7, 20.2, 5.4, 5.9), whose
\* xmax - xmin is width + 1 and whose ymax - ymin is height + 1.
C4_Witness ==
    /\ RowsInMode("int")
    /\ self[1].bb = << <<107, 202, 54, 59>> >>
    /\ Len(self[1].csv_list) = 1
    /\ self[1].csv_list[1].xmax - self[1].csv_list[1].xmin
          = self[1].csv_list[1].width + 10
    /\ self[1].csv_list[1].ymax - self[1].csv_list[1].ymin
          = self[1].csv_list[1].height + 10

\* C5: in integer mode the detection row and the <bndbox> both carry
\* xmax = trunc(x_min + width) and ymax = trunc(y_min + height), the sum taken
\* on the un-truncated values; xmin, ymin, width, height are each truncated
\* on their own; box (10.7, 20.2, 5.4, 5.9) gives 10, 20, 5, 5, 16, 26; and the
\* row and the node of the same object carry the same four corners.
C5_TruncateAfterSum ==
    /\ RowsInMode("int") =>
          \A j \in 1..Len(self[1].csv_list) :
              LET row == self[1].csv_list[j]
                  box == self[1].bb[NonZeroFrom(self[1].objects, 1)[j]]
              IN  /\ IsTrunc(row.xmin, box[1]) /\ IsTrunc(row.ymin, box[2])
                  /\ IsTrunc(row.width, box[3]) /\ IsTrunc(row.height, box[4])
                  /\ IsTrunc(row.xmax, box[1] + box[3])
                  /\ IsTrunc(row.ymax, box[2] + box[4])
                  /\ box = <<107, 202, 54, 59>> =>
                        <<row.xmin, row.ymin, row.width, row.height, row.xmax,
                          row.ymax>> = <<100, 200, 50, 50, 160, 260>>
    /\ self # <<>> /\ call.xml_mode = "int" =>
          \A j \in 1..Len(self[1].xml[1].objects) :
              LET node == self[1].xml[1].objects[j]
                  box == self[1].bb[NonZeroFrom(self[1].objects, 1)[j]]
              IN  /\ IsTrunc(node.xmin, box[1]) /\ IsTrunc(node.ymin, box[2])
                  /\ IsTrunc(node.xmax, box[1] + box[3])
                  /\ IsTrunc(node.ymax, box[2] + box[4])
                  /\ box = <<107, 202, 54, 59>> =>
                        <<node.xmin, node.ymin, node.xmax, node.ymax>>
                            = <<100, 200, 160, 260>>
    /\ RowsInMode("int") /\ call.xml_mode = "int"
          /\ self[1].csv_list_initialized =>
          \A j \in 1..Len(self[1].csv_list) :
              LET row == self[1].csv_list[j]
                  node == self[1].xml[1].objects[j]
              IN  <<row.xmin, row.ymin, row.xmax, row.ymax>>
                      = <<node.xmin, node.ymin, node.xmax, node.ymax>>

\* C5 witness: box (10.7, 20.2, 5.4, 5.9) converted by both emitters in
\* integer mode, xmax 16 in the row and in the node.
C5_Witness ==
    /\ RowsInMode("int")
    /\ call.xml_mode = "int"
    /\ self[1].bb = << <<107, 202, 54, 59>> >>
    /\ Len(self[1].csv_list) = 1
    /\ self[1].csv_list[1].xmax = 160
    /\ self[1].csv_list[1].width = 50
    /\ self[1].xml[1].objects[1].xmax = 160
    /\ self[1].xml[1].objects[1].ymax = 260

\* A detection row of input index n in the requested mode: truncated fields
\* and corners when asked for integers, the input's values otherwise.
RowInMode(row, bb, objects, n, asked) ==
    /\ NonZeroAt(objects, n)
    /\ row.class = objects[n][1]
    /\ IF asked
       THEN /\ IsTrunc(row.xmin, bb[n][1]) /\ IsTrunc(row.ymin, bb[n][2])
            /\ IsTrunc(row.width, bb[n][3]) /\ IsTrunc(row.height, bb[n][4])
            /\ IsTrunc(row.xmax, bb[n][1] + bb[n][3])
            /\ IsTrunc(row.ymax, bb[n][2] + bb[n][4])
       ELSE /\ row.xmin = bb[n][1] /\ row.ymin = bb[n][2]
            /\ row.width = bb[n][3] /\ row.height = bb[n][4]
            /\ row.xmax = bb[n][1] + bb[n][3]
            /\ row.ymax = bb[n][2] + bb[n][4]

\* An <object> node of input index n in the requested mode.
NodeInMode(node, bb, objects, n, asked) ==
    /\ NonZeroAt(objects, n)
    /\ IF asked
       THEN /\ IsTrunc(node.xmin, bb[n][1]) /\ IsTrunc(node.ymin, bb[n][2])
            /\ IsTrunc(node.xmax, bb[n][1] + bb[n][3])
            /\ IsTrunc(node.ymax, bb[n][2] + bb[n][4])
       ELSE /\ node.xmin = bb[n][1] /\ node.ymin = bb[n][2]
            /\ node.xmax = bb[n][1] + bb[n][3]
            /\ node.ymax = bb[n][2] + bb[n][4]

\* The rows and documents of the pipeline are in the mode the caller asked for.
OutputInRequestedMode ==
    /\ \A j \in 1..Len(AllRows) :
          \E f \in SourceFrames :
             /\ f.image_name = AllRows[j].filename
             /\ \E n \in 1..Len(f.rec.Object) :
                   RowInMode(AllRows[j], f.rec.BB, f.rec.Object, n, integer_bb)
    /\ \A p \in DOMAIN files :
          \E f \in SourceFrames :
             /\ f.image_name = files[p].filename
             /\ \A j \in 1..Len(files[p].objects) :
                   \E n \in 1..Len(f.rec.Object) :
                      NodeInMode(files[p].objects[j], f.rec.BB, f.rec.Object, n,
                                 integer_bb)

\* C6: whichever entry point is called, with integer_bb true every row of
\* every bucket and every box of every stored document is truncated toward
\* zero, and with integer_bb false the values are the input's.
C6_IntegerModeHonoured == entry \in Entries => OutputInRequestedMode

\* C6, for the two entry points that pass integer_bb on to convert_frame_to_csv.
C6_HonouredByCsvEntryPoints ==
    entry \in {"get_all_gt_files_in_csv", "get_gt_files_in_csv"}
        => OutputInRequestedMode

\* The run was ended by a malformed container.
AbortedByMalformed ==
    /\ pc = "aborted"
    /\ raised \in {"KeyError: 'structXML'", "ValueError: no field of name BB"}

\* C7: a malformed container does not abort the run: the run is never ended
\* by one, and a finished run holds the rows of every routed frame of the
\* well-formed containers and no row of a malformed one.
C7_MalformedIsolated ==
    /\ ~AbortedByMalformed
    /\ pc = "done" /\ entry = "generate_split_dataset_csv_xml" =>
          \A x \in 1..Len(dirs) : \A y \in 1..Len(dirs[x]) :
             \A n \in 1..Len(dirs[x][y].frames) :
                LET name == <<dirs[x][y].file[1], "_frame", ToString(n - 1), ".", "jpg">>
                    inn == name \in frames_tuple[1] \cup frames_tuple[2]
                IN  IF dirs[x][y].status = "ok"
                    THEN \A m \in 1..Len(dirs[x][y].frames[n].Object) :
                            inn /\ NonZeroAt(dirs[x][y].frames[n].Object, m) =>
                               \E j \in 1..Len(AllRows) :
                                  /\ AllRows[j].filename = name
                                  /\ AllRows[j].class = dirs[x][y].frames[n].Object[m][1]
                    ELSE \A j \in 1..Len(AllRows) : AllRows[j].filename # name

\* The frame holds a non-zero class code outside the vocabulary 1..10.
OutOfVocab(o) ==
    \E n \in 1..Len(o.objects) : NonZeroAt(o.objects, n) /\ o.objects[n][1] \notin 1..10

\* Both paths of the frame hold something other than whitespace.
BothPathsSet(o) ==
    /\ \E j \in 1..Len(o.image_path) : o.image_path[j] # " "
    /\ \E j \in 1..Len(o.xml_path) : o.xml_path[j] # " "

\* C8: a non-zero class code outside 1..10 that reaches the xml emitter ends
\* the emission with KeyError, and no document is assigned or written for
\* that image; every node of every document carries the vocabulary name of
\* its class code, and with all codes in 0..10 the emission succeeds.
C8_UnknownClassFails ==
    self # <<>> /\ cls = "Frame" =>
        /\ OutOfVocab(self[1]) =>
              /\ self[1].xml = <<>>
              /\ files = <<>>
              /\ call.op = "convert_frame_to_VOC_xml" => raised = "KeyError"
              /\ call.op = "save_frame_as_xml" /\ BothPathsSet(self[1])
                    => raised = "KeyError"
        /\ ~OutOfVocab(self[1]) /\ self[1].objects # <<>>
              /\ call.op = "convert_frame_to_VOC_xml"
              => raised = "none" /\ self[1].xml # <<>>
        /\ \A doc \in {self[1].xml[j] : j \in 1..Len(self[1].xml)}
                         \cup {files[p] : p \in DOMAIN files} :
              LET nz == NonZeroFrom(self[1].objects, 1)
              IN  /\ Len(doc.objects) = Len(nz)
                  /\ \A j \in 1..Len(doc.objects) :
                        /\ self[1].objects[nz[j]][1] \in 1..10
                        /\ doc.objects[j].name = VocabName(self[1].objects[nz[j]][1])

\* C8 witness: save_frame_as_xml with both paths set on a frame of class
\* code 11 has raised KeyError and written nothing.
C8_Witness ==
    /\ self # <<>> /\ cls = "Frame"
    /\ self[1].objects = << <<11>> >>
    /\ BothPathsSet(self[1])
    /\ call.op = "save_frame_as_xml"
    /\ raised = "KeyError"
    /\ files = <<>>
    /\ self[1].xml = <<>>

\* The image name up to its first '.', and up to its last '.'.
UpToFirstDot(name) ==
    SubSeq(name, 1, (CHOOSE m \in 1..Len(name) :
                        name[m] = "." /\ \A h \in 1..(m - 1) : name[h] # ".") - 1)

UpToLastDot(name) ==
    SubSeq(name, 1, (CHOOSE m \in 1..Len(name) :
                        name[m] = "." /\ \A h \in (m + 1)..Len(name) : name[h] # ".") - 1)

\* C9 as stated: save_frame_as_xml writes a file if and only if both paths
\* are non-empty after stripping, then exactly one, at
\* <xml_path>/<image_name without extension>.xml; otherwise it returns
\* without error and writes nothing.  Stated for the frames whose Object
\* array has an element (the others are the subject of C10).
C9_Original ==
    self # <<>> /\ call.op = "save_frame_as_xml" /\ self[1].objects # <<>> =>
        /\ BothPathsSet(self[1]) <=> files # <<>>
        /\ BothPathsSet(self[1]) =>
              DOMAIN files = {self[1].xml_path \o <<"/">>
                                 \o UpToLastDot(self[1].image_name) \o <<".", "xml">>}
        /\ ~BothPathsSet(self[1]) => raised = "none"

\* Generating the document of the frame raises.
GenerationFails(o) == o.objects = <<>> \/ OutOfVocab(o)

\* The file save_frame_as_xml writes to.
ExpectedXmlFile(o) ==
    o.xml_path \o <<"/">> \o UpToFirstDot(o.image_name) \o <<".", "xml">>

\* C9 amended: save_frame_as_xml writes a file only if both paths are
\* non-empty after stripping.  With both non-empty and the document
\* generated without error it writes exactly one file, at
\* <xml_path>/<image_name up to its first '.'>.xml, and leaves the other files
\* alone; when generating the document raises (a class code outside the
\* vocabulary, an Object array of length 0) the error is passed on and no
\* file is written; when either path is empty it returns without error and
\* the stored documents are unchanged.
C9_SaveWritesIffGenerated ==
    [][SaveFrameAsXml =>
        LET o == self[1]
        IN  IF ~BothPathsSet(o) THEN files' = files /\ raised' = "none"
            ELSE IF GenerationFails(o)
                 THEN files' = files /\ raised' \in {"KeyError", "IndexError"}
                 ELSE /\ raised' = "none"
                      /\ DOMAIN files' = DOMAIN files \cup {ExpectedXmlFile(o)}
                      /\ files'[ExpectedXmlFile(o)].filename = o.image_name
                      /\ \A p \in DOMAIN files \ {ExpectedXmlFile(o)} :
                            files'[p] = files[p]]_vars

\* C9 witness: save_frame_as_xml has written the one file of a frame whose
\* image name holds two dots.
C9_Witness ==
    /\ self # <<>> /\ call.op = "save_frame_as_xml"
    /\ raised = "none"
    /\ self[1].image_name = <<"MVI", ".", "v2", "_frame", "0", ".", "jpg">>
    /\ DOMAIN files = {<<"frames", "/", "train_annotations", "/", "MVI", ".", "xml">>}

\* C10: a Frame whose Object array has outer length 0 yields zero objects
\* and raises nothing, as the [[]] frame does.
C10_OuterEmptyYieldsNothing ==
    self # <<>> /\ self[1].objects = <<>> =>
        /\ raised = "none"
        /\ self[1].csv_list = <<>>
        /\ call.op \in {"convert_frame_to_csv", "generate_list_as_csv",
                        "get_frame_as_csv", "get_list_as_csv"}
              => self[1].csv_list_initialized
        /\ call.op = "convert_frame_to_VOC_xml" =>
              self[1].xml # <<>> /\ self[1].xml[1].objects = <<>>

\* The video id of a container file: its name up to the first '.', with
\* _ObjectGT taken out.
VideoId(file) ==
    SelectSeq(IF \E m \in 1..Len(file) : file[m] = "." THEN UpToFirstDot(file)
              ELSE file,
              LAMBDA t : t # "_ObjectGT")

\* The entry point is at work on directory d: frames holds Frames of dirs[d].
InEntryPoint == pc \in {"keys", "frames", "rows", "return", "aborted"}

\* C11: every Frame built from frame n of a regular file of the directory
\* carries the image name <video_id>_frame<n>.jpg, video_id being the key of
\* that file (its name up to the first '.', without _ObjectGT), whatever the
\* form of the file name.
C11_ImageNameFromVideoId ==
    InEntryPoint =>
        \A j \in 1..Len(frames) :
            LET o == frames[j].value
            IN  \E y \in 1..Len(dirs[d]) :
                   LET f == dirs[d][y]
                   IN  /\ f.isfile
                       /\ o.frame < Len(f.frames)
                       /\ f.frames[o.frame + 1].BB = o.bb
                       /\ f.frames[o.frame + 1].Object = o.objects
                       /\ o.image_name = VideoId(f.file)
                             \o <<"_frame", ToString(o.frame), ".", "jpg">>

\* The four per-object arrays of the frame are not of one length.
UnequalLengths(o) ==
    \/ Len(o.bb) # Len(o.objects)
    \/ Len(o.motion) # Len(o.objects)
    \/ Len(o.distance) # Len(o.objects)

\* C12: on a frame whose four per-object arrays are not of one length every
\* emitter ends in an error and nothing is emitted for the frame: no row in
\* its list, none returned, no document assigned or written; surplus entries
\* (more boxes than class codes) are never passed over in silence.
C12_UnequalLengthsRejected ==
    self # <<>> /\ UnequalLengths(self[1]) =>
        /\ call.op # "none" => raised # "none"
        /\ self[1].csv_list = <<>>
        /\ call.ret = <<>>
        /\ self[1].xml = <<>>
        /\ files = <<>>

\* A second run over the same files has finished; prev holds what the first left.
SecondRunDone == pc = "done" /\ prev # <<>> /\ prev[1].kind = "again"

\* The rows of the finished run are those of the run before it, bucket by
\* bucket and in the same order.
SameRowsAsBefore ==
    /\ objects_list_train = prev[1].train
    /\ objects_list_test = prev[1].test
    /\ objects_list = prev[1].all

C14_OneDocumentPerImage ==
    entry = "generate_split_dataset_csv_xml" /\ pc = "return" =>
        /\ \A j \in 1..Len(frames) :
              Cardinality({p \in DOMAIN files :
                              files[p].filename = frames[j].key}) = 1
        /\ \A j \in 1..Len(frames), h \in 1..Len(frames) :
              frames[j].key # frames[h].key =>
                 \E p \in DOMAIN files, q \in DOMAIN files :
                    /\ p # q
                    /\ files[p].filename = frames[j].key
                    /\ files[q].filename = frames[h].key

\* The run over the directories without their frameless containers has
\* finished; prev holds what the run over all the files left.
RunWithoutDone == pc = "done" /\ prev # <<>> /\ prev[1].kind = "without"

\* Every container of the directories is frameless.
OnlyFrameless ==
    \A j \in 1..Len(dirs) : \A y \in 1..Len(dirs[j]) : NoFrames(dirs[j][y])

\* No frameless container has the video id of another file of its directory.
NoKeyClash(listings) ==
    \A j \in 1..Len(listings) : \A y \in 1..Len(listings[j]), z \in 1..Len(listings[j]) :
        y # z /\ NoFrames(listings[j][y])
            => VideoId(listings[j][y].file) # VideoId(listings[j][z].file)

\* C15 as stated: a container with frame count 0 adds no row to any bucket,
\* has no document written and raises no error, and the rows and documents
\* of the run are those of the run without that container.
C15_Original ==
    /\ OnlyFrameless /\ prev = <<>> =>
          pc # "aborted" /\ raised = "none" /\ AllRows = <<>> /\ files = <<>>
    /\ RunWithoutDone => SameRowsAsBefore /\ files = prev[1].files

\* C15 amended: a container with frame count 0 adds no row to any bucket,
\* has no document written and raises no error; and when no other file of
\* its directory has the same video id, the rows and documents of the run
\* are those of the run without that container.
C15_FramelessAddsNothing ==
    /\ OnlyFrameless /\ prev = <<>> =>
          pc # "aborted" /\ raised = "none" /\ AllRows = <<>> /\ files = <<>>
    /\ RunWithoutDone /\ NoKeyClash(prev[1].dirs) =>
          SameRowsAsBefore /\ files = prev[1].files

\* C15 witness: the run over MVI_4_ObjectGT.mat (no frame) and
\* MVI_2_ObjectGT.mat left one train row, and so has the run over
\* MVI_2_ObjectGT.mat alone.
C15_Witness ==
    /\ RunWithoutDone
    /\ NoKeyClash(prev[1].dirs)
    /\ \E j \in 1..Len(dirs) :
          /\ Len(prev[1].dirs[j]) = 2
          /\ \E y \in 1..2 :
                /\ NoFrames(prev[1].dirs[j][y])
                /\ prev[1].dirs[j][y].file = <<"MVI_4", "_ObjectGT", ".", "mat">>
          /\ Len(dirs[j]) = 1
    /\ Len(objects_list_train) = 1
    /\ objects_list_train = prev[1].train
    /\ files # <<>>
    /\ files = prev[1].files

\* The document at path p is stored under the train annotations, for an image
\* of the train directory.
StoredAsTrain(p) ==
    /\ Len(p) > Len(xml_annotations_train_path)
    /\ SubSeq(p, 1, Len(xml_annotations_train_path)) = xml_annotations_train_path
    /\ files[p].folder = <<"train">>
    /\ files[p].path = images_train_path \o <<"/">> \o files[p].filename

\* C16: with train and test sets that overlap, an image in both is routed to
\* train only: no test row names it, its document is stored under the train
\* annotations with the train image path, and a finished run holds its rows
\* in the train list; and no image is named by a row of the train list and
\* by a row of the test list at once.
C16_OverlapGoesToTrain ==
    Splitting =>
        /\ \A j \in 1..Len(object_list_test) :
              object_list_test[j].filename \notin frames_tuple[1]
        /\ \A j \in 1..Len(objects_list_test) :
              objects_list_test[j].filename \notin frames_tuple[1]
        /\ \A p \in DOMAIN files :
              files[p].filename \in frames_tuple[1] => StoredAsTrain(p)
        /\ pc = "done" =>
              \A f \in SourceFrames :
                 f.image_name \in frames_tuple[1] \cap frames_tuple[2] =>
                    \A n \in 1..Len(f.rec.Object) :
                       NonZeroAt(f.rec.Object, n) =>
                          \E j \in 1..Len(objects_list_train) :
                             /\ objects_list_train[j].filename = f.image_name
                             /\ objects_list_train[j].class = f.rec.Object[n][1]
        /\ \A j \in 1..Len(object_list_train \o objects_list_train) :
              \A h \in 1..Len(object_list_test \o objects_list_test) :
                 (object_list_train \o objects_list_train)[j].filename
                    # (object_list_test \o objects_list_test)[h].filename

\* C16 witness: frame 0 of MVI_2 is in the train set and in the test set; the
\* finished run of generate_split_dataset_csv_xml holds its row in the train
\* list only and its document under the train annotations.
C16_Witness ==
    /\ pc = "done"
    /\ entry = "generate_split_dataset_csv_xml"
    /\ Img("MVI_2", 0) \in frames_tuple[1] \cap frames_tuple[2]
    /\ \E j \in 1..Len(objects_list_train) :
          objects_list_train[j].filename = Img("MVI_2", 0)
    /\ \A j \in 1..Len(objects_list_test) :
          objects_list_test[j].filename # Img("MVI_2", 0)
    /\ \E p \in DOMAIN files :
          files[p].filename = Img("MVI_2", 0) /\ StoredAsTrain(p)

\* A legacy row of input index n of frame o in the requested mode.
LegacyRowInMode(row, o, n, asked) ==
    /\ NonZeroAt(o.objects, n)
    /\ row.class = o.objects[n][1]
    /\ row.distance = o.distance[n][1]
    /\ row.motion = o.motion[n][1]
    /\ IF asked
       THEN /\ IsTrunc(row.x_min, o.bb[n][1]) /\ IsTrunc(row.y_min, o.bb[n][2])
            /\ IsTrunc(row.width, o.bb[n][3]) /\ IsTrunc(row.height, o.bb[n][4])
       ELSE /\ row.x_min = o.bb[n][1] /\ row.y_min = o.bb[n][2]
            /\ row.width = o.bb[n][3] /\ row.height = o.bb[n][4]

\* rows are the rows of frame o, one per non-zero index and in input order,
\* in mode m, each carrying the image name of o.
OwnRowsInMode(rows, o, m) ==
    LET nz == NonZeroFrom(o.objects, 1)
    IN  /\ Len(rows) = Len(nz)
        /\ \A x \in 1..Len(rows) :
              IF cls = "Frame"
              THEN /\ rows[x].filename = o.image_name
                   /\ RowInMode(rows[x], o.bb, o.objects, nz[x], m = "int")
              ELSE /\ rows[x].image_name = o.image_name
                   /\ LegacyRowInMode(rows[x], o, nz[x], m = "int")

====
